---- MODULE Spec2Model ----
(***************************************************************************)
(* Model of src/lab-10.py, a Streamlit dashboard over a housing table.     *)
(*                                                                         *)
(* One script run (a "rerun") is one atomic step: load_data() through the  *)
(* st.cache_data memo, the three sidebar widgets, the three filter steps   *)
(* and the rendering branches.  The user changes one widget per            *)
(* interaction, which triggers a rerun.                                    *)
(*                                                                         *)
(* Number representation.  median_income is a float compared with 2.5 and  *)
(* 4.5: it is held in tenths (25, 45).  median_house_value may be          *)
(* fractional and is compared with the integer slider ends: it is held in  *)
(* half-dollars, so that int() truncation is observable.  Slider values    *)
(* are whole dollars.                                                      *)
(*                                                                         *)
(* A DataFrame is [columns, rows]; every row carries its pandas index      *)
(* label in the field "index", which boolean-mask selection preserves.     *)
(***************************************************************************)
EXTENDS Integers, Sequences, FiniteSets, TLC

VARIABLES
    file,            \* <<>> when housing.csv is absent, else <<DataFrame>>
    rng,             \* numpy's global generator: [seed, pos]
    cache,           \* st.cache_data memo of load_data: <<>> or <<entry>>
    running,         \* a browser session has run the script at least once
    data,            \* module-level `data` of the latest run
    slider_bounds,   \* <<min_value, max_value>> the slider was built with
    price_range,     \* value of the slider: <<lo, hi>> in dollars
    location_options,\* options the multiselect was built with
    location_types,  \* value of the multiselect
    income_level,    \* value of the radio
    filtered_data,   \* module-level `filtered_data` of the latest run
    load_warning,    \* the "housing.csv not found" warning is on the page
    body_runs,       \* executions of load_data's body in this process
    out_map,         \* what column 1 rendered
    out_summary,     \* what column 2 rendered under "Data Summary"
    out_hist,        \* what the histogram section rendered
    aggregates,      \* aggregates computed over filtered_data in this run
    shown,           \* <<len(filtered_data), len(data)>> of line 95
    first_loaded,    \* history: what load_data returned on the first run
    file_at_load,    \* history: `file` when load_data's body last ran
    synth_first,     \* history: the first synthetic table ever generated
    load_kind        \* history: how the latest run got its table: "hit",
                     \* "read", "generated", or "regenerated" when an
                     \* earlier process had generated one already

vars == <<file, rng, cache, running, data, slider_bounds, price_range,
          location_options, location_types, income_level, filtered_data,
          load_warning, body_runs, out_map, out_summary, out_hist,
          aggregates, shown, first_loaded, file_at_load, synth_first,
          load_kind>>

(***************************************************************************)
(* Bounds of the model.                                                    *)
(***************************************************************************)
\* Longest housing.csv (in rows) the model reads.
MaxRows == 2
\* The user drags a slider end to one of the first MaxTicks steps above the
\* slider minimum, or to the slider maximum.
MaxTicks == 1
\* Number of distinct entropy seeds a fresh process may start numpy with.
MaxEntropy == 2

(***************************************************************************)
(* Values of the tables the model reads from housing.csv.                  *)
(***************************************************************************)
\* median_income in tenths: 2.5, 3.0, 4.5
CsvIncomes == {25, 30, 45}
\* median_house_value in half-dollars: -5000.5 and 10000 in the tables with
\* an ocean_proximity column, 10000 and 20000.5 in those without
CsvPrices == {-10001, 20000}
PlainPrices == {20000, 40001}
CsvOceans == {"INLAND", "NEAR BAY"}

AllColumns ==
    {"longitude", "latitude", "housing_median_age", "total_rooms",
     "total_bedrooms", "population", "households", "median_income",
     "median_house_value", "ocean_proximity"}

EmptyFrame == [columns |-> {}, rows |-> <<>>]

RECURSIVE SeqsUpTo(_, _)
SeqsUpTo(S, n) ==
    IF n = 0 THEN {<<>>}
    ELSE LET shorter == SeqsUpTo(S, n - 1)
         IN  shorter \cup {Append(s, x) : s \in shorter, x \in S}

\* pd.read_csv assigns the RangeIndex 0..n-1.
WithIndex(cells) ==
    [i \in 1..Len(cells) |-> [index |-> i - 1] @@ cells[i]]

\* The non-empty tables of at most n rows over the given cell values, with
\* the ocean_proximity column.
OceanFrames(incomes, prices, oceans, n) ==
    {[columns |-> AllColumns, rows |-> WithIndex(s)] :
        s \in SeqsUpTo([median_income : incomes, median_house_value : prices,
                        ocean_proximity : oceans], n) \ {<<>>}}

\* The same without the ocean_proximity column.
PlainFrames(incomes, prices, n) ==
    {[columns |-> AllColumns \ {"ocean_proximity"}, rows |-> WithIndex(s)] :
        s \in SeqsUpTo([median_income : incomes,
                        median_house_value : prices], n) \ {<<>>}}

\* What housing.csv may hold when the process starts.
CsvFrames ==
    OceanFrames(CsvIncomes, CsvPrices, CsvOceans, MaxRows)
    \cup PlainFrames(CsvIncomes, PlainPrices, MaxRows)

\* A smaller choice of tables for the runs that span several processes.
SmallFrames ==
    OceanFrames({25, 30}, {-10001, 40001}, {"INLAND"}, MaxRows)
    \cup PlainFrames({25, 30}, {40001}, MaxRows)

(***************************************************************************)
(* numpy's global pseudo-random generator.  Its state is the seed it was   *)
(* last given and the number of values drawn since; every draw is a fixed  *)
(* function of the two.  A fresh process starts from operating-system      *)
(* entropy.                                                                *)
(***************************************************************************)
EntropySeeds == 0..(MaxEntropy - 1)

\* Mutant: the seed call is missing.
SeedRngSkipped(g) == g

\* np.random.seed(42)
SeedRng(g) == [seed |-> 42, pos |-> 0]

\* The k-th raw value drawn after state g.
RawDraw(g, k) == ((g.seed + g.pos + k) * 7919 + 104729) % 1000003

\* np.random.randint(low, high): an integer in [low, high)
RandInt(low, high, raw) == low + (raw % (high - low))

\* np.random.uniform(low, high) in tenths: a value in [low, high)
UniformTenths(low, high, raw) == low + (raw % (high - low))

\* np.random.choice(options)
Choice(options, raw) == options[1 + (raw % Len(options))]

n_samples == 1000

OceanChoices == <<"INLAND", "NEAR BAY", "NEAR OCEAN", "ISLAND">>

\* The DataFrame built in the except branch: the columns are drawn one
\* after the other, n_samples values each, in the order of the dict.
SyntheticFrame(g) ==
    LET n == n_samples
        D(col, i) == RawDraw(g, col * n + i)
    IN  [columns |-> AllColumns,
         rows |-> [i \in 1..n |->
            [index              |-> i - 1,
             longitude          |-> UniformTenths(-1243, -1143, D(0, i)),
             latitude           |-> UniformTenths(325, 420, D(1, i)),
             housing_median_age |-> RandInt(1, 52, D(2, i)),
             total_rooms        |-> RandInt(2, 40000, D(3, i)),
             total_bedrooms     |-> RandInt(1, 6500, D(4, i)),
             population         |-> RandInt(3, 15000, D(5, i)),
             households         |-> RandInt(1, 5000, D(6, i)),
             median_income      |-> UniformTenths(5, 150, D(7, i)),
             median_house_value |-> 2 * RandInt(15000, 500000, D(8, i)),
             ocean_proximity    |-> Choice(OceanChoices, D(9, i))]]]

RngAfterFrame(g) == [g EXCEPT !.pos = @ + 10 * n_samples]

(***************************************************************************)
(* load_data and its st.cache_data memo.  A memo entry holds the returned  *)
(* table and the st.warning recorded while the body ran, which the memo    *)
(* replays on a hit.                                                       *)
(***************************************************************************)
\* The body of load_data, run with housing.csv in state f and numpy in g.
LoadBody(f, g) ==
    IF f # <<>>
    THEN [data |-> f[1], warning |-> FALSE, rng |-> g]
    ELSE LET seeded == SeedRng(g)
         IN  [data |-> SyntheticFrame(seeded), warning |-> TRUE,
              rng |-> RngAfterFrame(seeded)]

\* Mutant: the memo is never consulted.
CacheHitNever(c) == FALSE

\* The memo has a stored result for the argument-less call.
CacheHit(c) == c # <<>>

\* Mutant: the result of the body is not stored.
load_data_NotStored(c, f, g) ==
    LET b == LoadBody(f, g)
    IN  [data |-> b.data, warning |-> b.warning, rng |-> b.rng,
         cache |-> c, ran |-> TRUE]

\* load_data(): the stored entry on a hit, else the body, whose result is
\* stored.
load_data(c, f, g) ==
    IF CacheHit(c)
    THEN [data |-> c[1].data, warning |-> c[1].warning, rng |-> g,
          cache |-> c, ran |-> FALSE]
    ELSE LET b == LoadBody(f, g)
         IN  [data |-> b.data, warning |-> b.warning, rng |-> b.rng,
              cache |-> <<[data |-> b.data, warning |-> b.warning]>>,
              ran |-> TRUE]

(***************************************************************************)
(* Sidebar widgets.                                                        *)
(***************************************************************************)
Prices(d) == {d.rows[i].median_house_value : i \in 1..Len(d.rows)}

\* Series.min()
PriceMin(d) ==
    LET S == Prices(d) IN CHOOSE x \in S : \A y \in S : x <= y

\* Series.max(): the largest value is minus the smallest of the negated ones
PriceMax(d) ==
    LET N == {-v : v \in Prices(d)} IN -(CHOOSE x \in N : \A y \in N : x <= y)

\* int(x) of a value held in half-dollars: truncation toward zero.
IntTrunc(h) == IF h >= 0 THEN h \div 2 ELSE -((-h) \div 2)

slider_step == 10000

\* min_value and max_value of the slider
SliderMin(d) == IntTrunc(PriceMin(d))
SliderMax(d) == IntTrunc(PriceMax(d))

\* value=(min, max): the default of the slider
SliderDefault(d) == <<SliderMin(d), SliderMax(d)>>

\* The positions an end of a slider built with bounds b can be dragged to.
SliderTicks(b) ==
    {v \in {b[1] + k * slider_step : k \in 0..MaxTicks} : v <= b[2]}
    \cup {b[2]}

FallbackLocations == {"Coastal", "Inland", "Urban", "Rural"}

\* Mutant: no fallback list when the column is absent.
LocationOptionsNoFallback(d) ==
    IF "ocean_proximity" \in d.columns
    THEN {d.rows[i].ocean_proximity : i \in 1..Len(d.rows)}
    ELSE {}

\* location_options
LocationOptions(d) ==
    IF "ocean_proximity" \in d.columns
    THEN {d.rows[i].ocean_proximity : i \in 1..Len(d.rows)}
    ELSE FallbackLocations

IncomeLevels == <<"Low", "Medium", "High">>

\* st.radio without index: the first option
RadioDefault == IncomeLevels[1]

(***************************************************************************)
(* The filter steps.                                                       *)
(***************************************************************************)
\* frame[mask] is SelectSeq: the rows whose mask is true, in order, with
\* their index.

\* Mutant: the Low bucket excludes its boundary.
IncomeStepStrictLow(d, level) ==
    IF level = "Low"
    THEN SelectSeq(d.rows, LAMBDA r : r.median_income < 25)
    ELSE IF level = "Medium"
    THEN SelectSeq(d.rows, LAMBDA r : r.median_income > 25 /\ r.median_income < 45)
    ELSE SelectSeq(d.rows, LAMBDA r : r.median_income >= 45)

\* lines 77-82
IncomeStep(d, level) ==
    IF level = "Low"
    THEN SelectSeq(d.rows, LAMBDA r : r.median_income <= 25)
    ELSE IF level = "Medium"
    THEN SelectSeq(d.rows, LAMBDA r : r.median_income > 25 /\ r.median_income < 45)
    ELSE SelectSeq(d.rows, LAMBDA r : r.median_income >= 45)

\* Mutant: the upper price bound is exclusive.
PriceStepExclusive(rows, pr) ==
    SelectSeq(rows, LAMBDA r : r.median_house_value >= 2 * pr[1]
                          /\ r.median_house_value < 2 * pr[2])

\* lines 85-88; pr is in dollars, median_house_value in half-dollars
PriceStep(rows, pr) ==
    SelectSeq(rows, LAMBDA r : r.median_house_value >= 2 * pr[1]
                          /\ r.median_house_value <= 2 * pr[2])

\* Mutant: an empty selection does not switch the category mask off.
CategoryActiveOnEmpty(d, lt) == "ocean_proximity" \in d.columns

\* line 91: the condition under which the category mask is applied
CategoryActive(d, lt) == "ocean_proximity" \in d.columns /\ lt # {}

\* Mutant: an empty selection excludes every row.
CategoryStepExcludeAll(d, rows, lt) ==
    IF "ocean_proximity" \in d.columns
    THEN SelectSeq(rows, LAMBDA r : r.ocean_proximity \in lt)
    ELSE rows

\* lines 91-92
CategoryStep(d, rows, lt) ==
    IF CategoryActive(d, lt)
    THEN SelectSeq(rows, LAMBDA r : r.ocean_proximity \in lt)
    ELSE rows

\* lines 77-92
Filter(d, pr, lt, level) ==
    CategoryStep(d, PriceStep(IncomeStep(d, level), pr), lt)

(***************************************************************************)
(* Rendering (lines 95-165).                                               *)
(***************************************************************************)
\* DataFrame.empty
IsEmpty(rows) == Len(rows) = 0

\* lines 104-127
RenderMap(rows) == IF ~IsEmpty(rows) THEN "scatter" ELSE "warning"

\* lines 132-147: no else branch
RenderSummary(rows) == IF ~IsEmpty(rows) THEN "metrics" ELSE "none"

\* lines 151-165
RenderHist(rows) == IF ~IsEmpty(rows) THEN "histogram" ELSE "warning"

\* The aggregates the three sections compute over filtered_data.
Aggregates(d, rows) ==
    IF ~IsEmpty(rows)
    THEN {"scatter", "mean_price", "mean_income", "head", "hist"}
         \cup (IF "housing_median_age" \in d.columns
               THEN {"mean_age"} ELSE {})
    ELSE {}

(***************************************************************************)
(* One run of the script.  pr, lt and il are the widget values the browser *)
(* sends with the rerun request.  A widget built with other parameters     *)
(* than in the previous run is a new widget and takes its default.         *)
(***************************************************************************)
ScriptRun(pr, lt, il) ==
    \E ld \in {load_data(cache, file, rng)} :
        \* line 45
        /\ data' = ld.data
        /\ cache' = ld.cache
        /\ rng' = ld.rng
        /\ load_warning' = ld.warning
        /\ body_runs' = IF ld.ran THEN body_runs + 1 ELSE body_runs
        \* lines 51-57
        /\ slider_bounds' = SliderDefault(data')
        /\ price_range' =
            IF running /\ slider_bounds' = slider_bounds
            THEN pr ELSE SliderDefault(data')
        \* lines 60-69
        /\ location_options' = LocationOptions(data')
        /\ location_types' =
            IF running /\ location_options' = location_options
            THEN lt ELSE location_options'
        \* lines 72-75
        /\ income_level' = IF running THEN il ELSE RadioDefault
        \* lines 77-92
        /\ filtered_data' =
            Filter(data', price_range', location_types', income_level')
        \* lines 95-165
        /\ shown' = <<Len(filtered_data'), Len(data'.rows)>>
        /\ out_map' = RenderMap(filtered_data')
        /\ out_summary' = RenderSummary(filtered_data')
        /\ out_hist' = RenderHist(filtered_data')
        /\ aggregates' = Aggregates(data', filtered_data')
        /\ running' = TRUE
        /\ first_loaded' = IF running THEN first_loaded ELSE <<ld.data>>
        /\ file_at_load' = IF ld.ran THEN <<file>> ELSE file_at_load
        /\ synth_first' = IF ld.ran /\ file = <<>> /\ synth_first = <<>>
                          THEN <<ld.data>> ELSE synth_first
        /\ load_kind' = IF ~ld.ran THEN "hit"
                        ELSE IF file # <<>> THEN "read"
                        ELSE IF synth_first = <<>> THEN "generated"
                        ELSE "regenerated"
        /\ UNCHANGED file

(***************************************************************************)
(* Actions.  Every user interaction changes one widget and reruns the      *)
(* script.                                                                 *)
(***************************************************************************)
\* The browser opens the page: the first run, every widget at its default.
Start ==
    /\ ~running
    /\ ScriptRun(<<0, 0>>, {}, RadioDefault)

\* The user drags one end of the price slider.
SetPrice ==
    /\ running
    /\ \E v \in SliderTicks(slider_bounds) :
        \/ /\ v <= price_range[2]
           /\ v # price_range[1]
           /\ ScriptRun(<<v, price_range[2]>>, location_types, income_level)
        \/ /\ v >= price_range[1]
           /\ v # price_range[2]
           /\ ScriptRun(<<price_range[1], v>>, location_types, income_level)

\* The user adds or removes one option of the location multiselect, or
\* clears it.
SetLocations ==
    /\ running
    /\ \/ \E o \in location_options :
            ScriptRun(price_range,
                      IF o \in location_types
                      THEN location_types \ {o}
                      ELSE location_types \cup {o},
                      income_level)
       \/ /\ location_types # {}
          /\ ScriptRun(price_range, {}, income_level)

\* The user picks another income level.
SetIncome ==
    /\ running
    /\ \E i \in 1..Len(IncomeLevels) :
        /\ IncomeLevels[i] # income_level
        /\ ScriptRun(price_range, location_types, IncomeLevels[i])

\* housing.csv is removed from the working directory.
DeleteFile ==
    /\ file # <<>>
    /\ file' = <<>>
    /\ UNCHANGED <<rng, cache, running, data, slider_bounds, price_range,
                   location_options, location_types, income_level,
                   filtered_data, load_warning, body_runs, out_map,
                   out_summary, out_hist, aggregates, shown, first_loaded,
                   file_at_load, synth_first, load_kind>>

\* The server process is restarted: the memo, the session and the page are
\* gone, numpy starts from fresh entropy.
Restart ==
    /\ running
    /\ \E e \in EntropySeeds : rng' = [seed |-> e, pos |-> 0]
    /\ cache' = <<>>
    /\ running' = FALSE
    /\ data' = EmptyFrame
    /\ slider_bounds' = <<0, 0>>
    /\ price_range' = <<0, 0>>
    /\ location_options' = {}
    /\ location_types' = {}
    /\ income_level' = RadioDefault
    /\ filtered_data' = <<>>
    /\ load_warning' = FALSE
    /\ body_runs' = 0
    /\ out_map' = "none"
    /\ out_summary' = "none"
    /\ out_hist' = "none"
    /\ aggregates' = {}
    /\ shown' = <<0, 0>>
    /\ first_loaded' = <<>>
    /\ file_at_load' = <<>>
    /\ load_kind' = "none"
    /\ UNCHANGED <<file, synth_first>>

\* A process that has not served the page yet.
Fresh ==
    /\ cache = <<>>
    /\ running = FALSE
    /\ data = EmptyFrame
    /\ slider_bounds = <<0, 0>>
    /\ price_range = <<0, 0>>
    /\ location_options = {}
    /\ location_types = {}
    /\ income_level = RadioDefault
    /\ filtered_data = <<>>
    /\ load_warning = FALSE
    /\ body_runs = 0
    /\ out_map = "none"
    /\ out_summary = "none"
    /\ out_hist = "none"
    /\ aggregates = {}
    /\ shown = <<0, 0>>
    /\ first_loaded = <<>>
    /\ file_at_load = <<>>
    /\ synth_first = <<>>
    /\ load_kind = "none"

\* One server process and one browser session over a housing.csv that is
\* present.
Init ==
    /\ file \in {<<f>> : f \in CsvFrames}
    /\ rng = [seed |-> 0, pos |-> 0]
    /\ Fresh

Next ==
    \/ Start
    \/ SetPrice
    \/ SetLocations
    \/ SetIncome

Spec == Init /\ [][Next]_vars

\* Several server processes in turn; housing.csv may be absent from the
\* start, or be removed between two runs.
InitProc ==
    /\ file \in {<<>>} \cup {<<f>> : f \in SmallFrames}
    /\ rng \in {[seed |-> e, pos |-> 0] : e \in EntropySeeds}
    /\ Fresh

NextProc ==
    \/ Start
    \/ SetPrice
    \/ SetLocations
    \/ SetIncome
    \/ DeleteFile
    \/ Restart

SpecProc == InitProc /\ [][NextProc]_vars

(***************************************************************************)
(* The predicates of the specification's section 4.2, stated on one row.   *)
(***************************************************************************)
InBucket(r, level) ==
    \/ level = "Low" /\ r.median_income <= 25
    \/ level = "Medium" /\ 25 < r.median_income /\ r.median_income < 45
    \/ level = "High" /\ r.median_income >= 45

\* price_min <= median_house_value <= price_max, the bounds in dollars
InPriceRange(r, pr) ==
    2 * pr[1] <= r.median_house_value /\ r.median_house_value <= 2 * pr[2]

HasOceanColumn == "ocean_proximity" \in data.columns

\* The rows that pass the income and the price predicate of the current
\* criteria.
IncomeAndPriceRows ==
    SelectSeq(data.rows, LAMBDA r : InBucket(r, income_level)
                                    /\ InPriceRange(r, price_range))

AtDefaults ==
    /\ price_range = slider_bounds
    /\ location_types = location_options

(***************************************************************************)
(* C1.  The filtered dataset is exactly the order-preserving sub-sequence  *)
(* of the loaded dataset made of the rows that satisfy the income-bucket   *)
(* predicate, the inclusive price range and, when the dataset has the      *)
(* category column and the selection is non-empty, the category predicate. *)
(***************************************************************************)
C1_FilterIsExactSubsequence ==
    running =>
        filtered_data =
            SelectSeq(data.rows,
                LAMBDA r :
                    /\ InBucket(r, income_level)
                    /\ InPriceRange(r, price_range)
                    /\ (HasOceanColumn /\ location_types # {}
                            => r.ocean_proximity \in location_types))

\* Two rows, all three predicates in force, exactly the second row kept.
C1_Witness ==
    /\ running
    /\ HasOceanColumn
    /\ location_types # {}
    /\ location_types # location_options
    /\ price_range # slider_bounds
    /\ Len(data.rows) = 2
    /\ Len(filtered_data) = 1
    /\ filtered_data[1].index = 1

C3_EmptySelectionSkipsCategory ==
    running /\ location_types = {} => filtered_data = IncomeAndPriceRows

\* The category column exists, nothing is selected, and rows are shown.
C3_Witness ==
    /\ running
    /\ HasOceanColumn
    /\ location_types = {}
    /\ filtered_data # <<>>

(***************************************************************************)
(* C6.  Whenever the filtered dataset is empty, the map, the data summary  *)
(* and the histogram each show a "no data" message and no aggregate is     *)
(* computed.                                                               *)
(***************************************************************************)
C6_EveryPathHasFallback ==
    running /\ filtered_data = <<>> =>
        /\ out_map = "warning"
        /\ out_summary = "warning"
        /\ out_hist = "warning"
        /\ aggregates = {}

(***************************************************************************)
(* C8.  As claimed: with an empty location selection no rows match.        *)
(***************************************************************************)
C8_EmptySelectionMatchesNothing ==
    running /\ location_types = {} => filtered_data = <<>>

(***************************************************************************)
(* C8, amended.  With an empty location selection the filtered dataset is  *)
(* empty only when no row passes the income and price predicates.          *)
(***************************************************************************)
C8_EmptySelectionEmptyOnlyWithoutMatches ==
    running /\ location_types = {} =>
        (filtered_data = <<>> <=>
            \A i \in 1..Len(data.rows) :
                ~(InBucket(data.rows[i], income_level)
                  /\ InPriceRange(data.rows[i], price_range)))

\* Nothing selected, the column exists, and every row of the table is shown.
C8_Witness ==
    /\ running
    /\ HasOceanColumn
    /\ location_types = {}
    /\ Len(data.rows) = 2
    /\ Len(filtered_data) = 2

(***************************************************************************)
(* C9.  When the dataset has no ocean_proximity column, the multiselect    *)
(* offers Coastal, Inland, Urban, Rural, and for every selection the       *)
(* filtered dataset is the result of the income and price predicates       *)
(* alone.                                                                  *)
(***************************************************************************)
C9_NoColumnNoCategoryFilter ==
    running /\ ~HasOceanColumn =>
        /\ location_options = {"Coastal", "Inland", "Urban", "Rural"}
        /\ location_types \subseteq location_options
        /\ filtered_data = IncomeAndPriceRows

\* No column, a proper non-empty selection from the fallback list, rows shown.
C9_Witness ==
    /\ running
    /\ ~HasOceanColumn
    /\ location_types = {"Coastal", "Urban"}
    /\ filtered_data # <<>>

(***************************************************************************)
(* C10.  With the price slider at its full range and all location types    *)
(* selected, the filtered dataset is exactly the rows of the selected      *)
(* income bucket.                                                          *)
(***************************************************************************)
C10_DefaultsExcludeNothing ==
    running /\ AtDefaults =>
        filtered_data =
            SelectSeq(data.rows, LAMBDA r : InBucket(r, income_level))

(***************************************************************************)
(* C4.  In one process the body of load_data runs at most once, on the     *)
(* first run; every later run is served the same table by the memo.        *)
(***************************************************************************)
C4_LoadBodyRunsOnce ==
    /\ body_runs <= 1
    /\ running =>
        /\ body_runs = 1
        /\ cache # <<>>
        /\ data = cache[1].data
        /\ load_kind # "hit" => first_loaded = <<data>>

\* A later run, after housing.csv was removed, still shows the table read
\* from it and no warning.
C4_Witness ==
    /\ running
    /\ load_kind = "hit"
    /\ file = <<>>
    /\ file_at_load # <<file>>
    /\ ~load_warning
    /\ data = file_at_load[1][1]

(***************************************************************************)
(* C5.  When housing.csv is missing, load_data emits the warning and       *)
(* returns 1000 synthetic records, every column within its declared        *)
(* bounds, identical on every run; when the file is present there is no    *)
(* warning and no synthetic data.                                          *)
(***************************************************************************)
C5_SyntheticFallback ==
    running =>
        IF file_at_load = << <<>> >>
        THEN /\ load_warning
             /\ Len(data.rows) = 1000
             /\ data = synth_first[1]
             /\ \A i \in 1..Len(data.rows) :
                 LET r == data.rows[i]
                 IN  /\ 1 <= r.housing_median_age /\ r.housing_median_age < 52
                     /\ 2 <= r.total_rooms /\ r.total_rooms < 40000
                     /\ 1 <= r.total_bedrooms /\ r.total_bedrooms < 6500
                     /\ 3 <= r.population /\ r.population < 15000
                     /\ 1 <= r.households /\ r.households < 5000
                     /\ 5 <= r.median_income /\ r.median_income < 150
                     /\ 2 * 15000 <= r.median_house_value
                     /\ r.median_house_value < 2 * 500000
                     /\ r.ocean_proximity \in
                            {"INLAND", "NEAR BAY", "NEAR OCEAN", "ISLAND"}
        ELSE /\ ~load_warning
             /\ data = file_at_load[1][1]
             /\ rng.pos = 0

\* A second process generated the synthetic table again.
C5_Witness ==
    /\ running
    /\ load_kind = "regenerated"
    /\ load_warning
    /\ Len(data.rows) = 1000

(***************************************************************************)
(* C7.  No interaction changes the loaded dataset, and the filtered        *)
(* dataset depends on the first-loaded dataset and the current criteria    *)
(* only: criteria that recur give the same filtered dataset.               *)
(***************************************************************************)
C7_FilterIsPure ==
    running =>
        /\ data = first_loaded[1]
        /\ filtered_data =
            Filter(first_loaded[1], price_range, location_types, income_level)

\* The default criteria recur in a later run, after other criteria.
C7_Witness ==
    /\ running
    /\ load_kind = "hit"
    /\ AtDefaults
    /\ income_level = RadioDefault
    /\ filtered_data # <<>>
    /\ file = <<>>

====
